---------------------------- MODULE Spec2Model ----------------------------
(***************************************************************************)
(* Order-cost pipeline of lambda/lambda_cost_calc.py:                      *)
(*   lambda_handler = validate_items -> compute_subtotal ->                *)
(*   compute_discounts -> compute_shipping -> compute_tax -> response.     *)
(*                                                                         *)
(* A decimal.Decimal is a record [k, c, s]: coefficient c and scale s, the *)
(* value c / 10^s, n its sign bit, which tells Decimal('-0.00') from       *)
(* Decimal('0.00') (k = "nan" for Decimal('NaN')).  A JSON value of the    *)
(* request is a record [k, c, s] too: k = "num" for a number written with  *)
(* s fractional digits, "nan" for NaN, "str" for text that is no number,   *)
(* "none" for an absent key.  Text is a sequence of one-character strings. *)
(* A function that can raise returns [err, v] with err one of "ok",        *)
(* "BadRequest", "Exception".                                              *)
(*                                                                         *)
(* Not modelled: the API-gateway envelope of parse_event (the request is   *)
(* the direct-invoke body), Decimal infinities and the 28-digit precision  *)
(* limit, which the bounded values never reach.                            *)
(***************************************************************************)
EXTENDS Integers, Sequences, FiniteSets, TLC

\* ------------------------------------------------------------- bounds
MaxItems == 2
MaxDiscounts == 2
MaxBump == 2

\* -------------------------------------------------------- Decimal model
RECURSIVE Pow10(_)
Pow10(n) == IF n <= 0 THEN 1 ELSE 10 * Pow10(n - 1)

Abs(n) == IF n < 0 THEN -n ELSE n

Max(a, b) == IF a >= b THEN a ELSE b

\* the Decimal of coefficient c, scale s and, when c = 0, sign bit n
DecS(c, s, n) == [k |-> "dec", c |-> c, s |-> s, n |-> IF c = 0 THEN n ELSE c < 0]

Dec(c, s) == DecS(c, s, FALSE)

NaN == [k |-> "nan", c |-> 0, s |-> 0, n |-> FALSE]

Ok(v) == [err |-> "ok", v |-> v]

Raise(e) == [err |-> e, v |-> NaN]

IsNaN(x) == x.k = "nan"

\* Decimal("0"), the literal of lines 140, 155, 156, 184, 195, 208, 216
Zero == Dec(0, 0)

\* d(val), lines 64-74: Decimal(str(val)); anything str() does not print as a
\* number raises BadRequest
d(val) ==
  CASE val.k = "dec" -> Ok(val)
    [] val.k = "num" -> Ok(Dec(val.c, val.s))
    [] val.k = "nan" -> Ok(NaN)
    [] OTHER -> Raise("BadRequest")

\* x.quantize(TWO_PLACES, rounding=ROUND_HALF_UP), line 79: ties go away from zero
q(x) ==
  IF IsNaN(x) THEN x
  ELSE IF x.s <= 2 THEN DecS(x.c * Pow10(2 - x.s), 2, x.n)
  ELSE LET p == Pow10(x.s - 2)
           m == (2 * Abs(x.c) + p) \div (2 * p)
       IN  DecS(IF x.c < 0 THEN -m ELSE m, 2, x.n)

\* Decimal.__add__ / __sub__ / __mul__ / __truediv__ by 100 (exact here); a zero
\* sum is negative only when both terms are, a product has the signs' product
DAdd(a, b) ==
  LET s == Max(a.s, b.s)
  IN  DecS(a.c * Pow10(s - a.s) + b.c * Pow10(s - b.s), s, a.n /\ b.n)

DSub(a, b) == DAdd(a, DecS(-b.c, b.s, ~b.n))

DMul(a, b) == DecS(a.c * b.c, a.s + b.s, a.n # b.n)

DDiv100(a) == DecS(a.c, a.s + 2, a.n)

\* Decimal.__lt__ / __ge__ on numbers (a NaN operand raises, see the callers)
DLt(a, b) == a.c * Pow10(b.s) < b.c * Pow10(a.s)

DGe(a, b) == ~DLt(a, b)

\* min(a, b), line 179: the first argument unless the second is smaller
DMin(a, b) == IF DLt(b, a) THEN b ELSE a

\* int(qty), line 122: truncation toward zero; NaN and non-numbers raise
IntOf(val) ==
  IF val.k = "num"
  THEN LET m == Abs(val.c) \div Pow10(val.s)
       IN  Ok(IF val.c < 0 THEN -m ELSE m)
  ELSE Raise("BadRequest")

\* ------------------------------------------------------ text of a Decimal
DigitChars == <<"0", "1", "2", "3", "4", "5", "6", "7", "8", "9">>

RECURSIVE Digits(_, _)
\* the decimal digits of n >= 0, zero-padded to at least minlen characters
Digits(n, minlen) ==
  IF n < 10 /\ minlen <= 1 THEN <<DigitChars[n + 1]>>
  ELSE Append(Digits(n \div 10, minlen - 1), DigitChars[(n % 10) + 1])

\* f"{x}" = str(Decimal), lines 147-148 and 249-253: plain notation, exactly
\* x.s digits after the point and no point at all when x.s = 0
Str(x) ==
  IF IsNaN(x) THEN <<"N", "a", "N">>
  ELSE LET ds == Digits(Abs(x.c), x.s + 1)
           n == Len(ds)
           body == IF x.s = 0 THEN ds
                   ELSE SubSeq(ds, 1, n - x.s) \o <<".">> \o SubSeq(ds, n - x.s + 1, n)
       IN  IF x.n THEN <<"-">> \o body ELSE body

\* str.upper() on the strings the requests use
Upper(str) ==
  CASE str = "flat" -> "FLAT"
    [] str = "per_item" -> "PER_ITEM"
    [] str = "express" -> "EXPRESS"
    [] str = "percent" -> "PERCENT"
    [] str = "amount" -> "AMOUNT"
    [] str = "bogus" -> "BOGUS"
    [] str = "usd" -> "USD"
    [] OTHER -> str

\* str.strip() on the skus the requests use
Strip(str) ==
  CASE str = " " -> ""
    [] str = " A " -> "A"
    [] OTHER -> str

\* ------------------------------------------------------- JSON request values
Num(c, s) == [k |-> "num", c |-> c, s |-> s]

None == [k |-> "none", c |-> 0, s |-> 0]

NotANumber == [k |-> "str", c |-> 0, s |-> 0]

JsonNaN == [k |-> "nan", c |-> 0, s |-> 0]

\* ----------------------------------------------------------- validate_items
RECURSIVE validate_from(_, _, _)
\* the loop of lines 113-134 from index idx on, cleaned being the items kept so far
validate_from(items, idx, cleaned) ==
  IF idx > Len(items) THEN Ok(cleaned)
  ELSE LET it == items[idx]
           qty_i == IntOf(it.quantity)
           price_d == d(it.unit_price)
       IN  IF it.shape # "dict" THEN Raise("BadRequest")
           ELSE IF Strip(it.sku) = "" THEN Raise("BadRequest")
           ELSE IF qty_i.err # "ok" THEN Raise("BadRequest")
           ELSE IF qty_i.v < 0 THEN Raise("BadRequest")
           ELSE IF price_d.err # "ok" THEN Raise(price_d.err)
           ELSE IF IsNaN(price_d.v) THEN Raise("Exception")
           ELSE IF DLt(price_d.v, Zero) THEN Raise("BadRequest")
           ELSE validate_from(items, idx + 1,
                  Append(cleaned, [sku |-> Strip(it.sku),
                                   quantity |-> qty_i.v,
                                   unit_price |-> q(price_d.v)]))

\* validate_items, lines 108-135
validate_items(items) ==
  IF items.shape # "list" \/ Len(items.v) = 0 THEN Raise("BadRequest")
  ELSE validate_from(items.v, 1, <<>>)

\* --------------------------------------------------------- compute_subtotal
\* mutant: line 142 without the quantity
line_of_each(it) == q(it.unit_price)

\* the line amount of line 142
line_of(it) == q(DMul(it.unit_price, Dec(it.quantity, 0)))

RECURSIVE subtotal_from(_, _, _)
\* the running sum of lines 141-143
subtotal_from(items, idx, subtotal) ==
  IF idx > Len(items) THEN subtotal
  ELSE subtotal_from(items, idx + 1, DAdd(subtotal, line_of(items[idx])))

\* compute_subtotal, lines 138-150: (q(subtotal), lines)
compute_subtotal(items) ==
  [subtotal |-> q(subtotal_from(items, 1, Zero)),
   lines |-> [i \in 1..Len(items) |->
                [sku |-> items[i].sku,
                 quantity |-> items[i].quantity,
                 unit_price |-> Str(q(items[i].unit_price)),
                 line_subtotal |-> Str(line_of(items[i]))]]]

\* -------------------------------------------------------- compute_discounts
\* the amount of one PERCENT entry, line 172
percent_amt(subtotal, pct) == q(DMul(subtotal, DDiv100(pct)))

RECURSIVE discounts_from_compounding(_, _, _, _)
\* mutant: a PERCENT entry taken of what the earlier entries left of the subtotal
discounts_from_compounding(subtotal, discounts, idx, total_disc) ==
  IF idx > Len(discounts) THEN Ok(total_disc)
  ELSE LET disc == discounts[idx]
           typ == Upper(disc.type)
           val == d(disc.value)
       IN  IF disc.shape # "dict" THEN Raise("BadRequest")
           ELSE IF typ \notin {"PERCENT", "AMOUNT"} THEN Raise("BadRequest")
           ELSE IF disc.value.k = "none" THEN Raise("BadRequest")
           ELSE IF val.err # "ok" THEN Raise(val.err)
           ELSE IF typ = "PERCENT"
           THEN IF IsNaN(val.v) THEN Raise("Exception")
                ELSE IF DLt(val.v, Zero) THEN Raise("BadRequest")
                ELSE discounts_from_compounding(subtotal, discounts, idx + 1,
                       DAdd(total_disc, q(DMul(DSub(subtotal, total_disc), DDiv100(val.v)))))
           ELSE IF IsNaN(q(val.v)) THEN Raise("Exception")
                ELSE IF DLt(q(val.v), Zero) THEN Raise("BadRequest")
                ELSE discounts_from_compounding(subtotal, discounts, idx + 1,
                       DAdd(total_disc, q(val.v)))

RECURSIVE discounts_from(_, _, _, _)
\* the loop of lines 159-177 from index idx on
discounts_from(subtotal, discounts, idx, total_disc) ==
  IF idx > Len(discounts) THEN Ok(total_disc)
  ELSE LET disc == discounts[idx]
           typ == Upper(disc.type)
           val == d(disc.value)
       IN  IF disc.shape # "dict" THEN Raise("BadRequest")
           ELSE IF typ \notin {"PERCENT", "AMOUNT"} THEN Raise("BadRequest")
           ELSE IF disc.value.k = "none" THEN Raise("BadRequest")
           ELSE IF val.err # "ok" THEN Raise(val.err)
           ELSE IF typ = "PERCENT"
           THEN IF IsNaN(val.v) THEN Raise("Exception")
                ELSE IF DLt(val.v, Zero) THEN Raise("BadRequest")
                ELSE discounts_from(subtotal, discounts, idx + 1,
                       DAdd(total_disc, percent_amt(subtotal, val.v)))
           ELSE IF IsNaN(q(val.v)) THEN Raise("Exception")
                ELSE IF DLt(q(val.v), Zero) THEN Raise("BadRequest")
                ELSE discounts_from(subtotal, discounts, idx + 1,
                       DAdd(total_disc, q(val.v)))

\* mutant: the cap of line 179 forgotten
cap_discount_uncapped(total_disc, subtotal) == q(total_disc)

\* the cap of line 179
cap_discount(total_disc, subtotal) == q(DMin(total_disc, subtotal))

\* compute_discounts, lines 153-179
compute_discounts(subtotal, discounts) ==
  IF discounts.shape = "none" \/ (discounts.shape = "list" /\ Len(discounts.v) = 0)
  THEN Ok(Zero)
  ELSE IF discounts.shape # "list" THEN Raise("BadRequest")
  ELSE LET r == discounts_from(subtotal, discounts.v, 1, Zero)
       IN  IF r.err # "ok" THEN r ELSE Ok(cap_discount(r.v, subtotal))

\* --------------------------------------------------------- compute_shipping
RECURSIVE total_qty_from(_, _)
\* sum(int(it["quantity"]) for it in items), line 198
total_qty_from(items, idx) ==
  IF idx > Len(items) THEN 0
  ELSE items[idx].quantity + total_qty_from(items, idx + 1)

\* a dict with no key is falsy (lines 183 and 207, "if not shipping")
shipping_falsy(shipping) ==
  \/ shipping.shape = "none"
  \/ /\ shipping.shape = "dict"
     /\ shipping.mode = ""
     /\ shipping.rate.k = "none"
     /\ shipping.free_over.k = "none"

\* mutant: line 194 with > for >=
free_shipping_strict(discounted_subtotal, free_over_d) == DLt(free_over_d, discounted_subtotal)

\* the free-shipping test of line 194
free_shipping(discounted_subtotal, free_over_d) == DGe(discounted_subtotal, free_over_d)

\* the charge by mode, lines 197-203
charge_by_mode(items, mode, rate) ==
  IF mode = "PER_ITEM" THEN Ok(q(DMul(rate, Dec(total_qty_from(items, 1), 0))))
  ELSE IF mode = "FLAT" THEN Ok(rate)
  ELSE Raise("BadRequest")

\* compute_shipping, lines 182-203
compute_shipping(items, discounted_subtotal, shipping) ==
  IF shipping_falsy(shipping) THEN Ok(Zero)
  ELSE IF shipping.shape # "dict" THEN Raise("BadRequest")
  ELSE LET mode == Upper(IF shipping.mode = "" THEN "FLAT" ELSE shipping.mode)
           rate_d == d(IF shipping.rate.k = "none" THEN Num(0, 0) ELSE shipping.rate)
           free_d == d(shipping.free_over)
       IN  IF rate_d.err # "ok" THEN Raise(rate_d.err)
           ELSE IF IsNaN(q(rate_d.v)) THEN Raise("Exception")
           ELSE IF DLt(q(rate_d.v), Zero) THEN Raise("BadRequest")
           ELSE IF shipping.free_over.k = "none"
                THEN charge_by_mode(items, mode, q(rate_d.v))
           ELSE IF free_d.err # "ok" THEN Raise(free_d.err)
           ELSE IF IsNaN(q(free_d.v)) THEN Raise("Exception")
           ELSE IF free_shipping(discounted_subtotal, q(free_d.v)) THEN Ok(Zero)
           ELSE charge_by_mode(items, mode, q(rate_d.v))

\* -------------------------------------------------------------- compute_tax
tax_falsy(tax_cfg) ==
  \/ tax_cfg.shape = "none"
  \/ /\ tax_cfg.shape = "dict"
     /\ tax_cfg.rate_percent.k = "none"
     /\ tax_cfg.apply_on_shipping = "absent"

\* mutant: line 214 with a default of True
apply_on_shipping_default_true(tax_cfg) == tax_cfg.apply_on_shipping # "false"

\* bool(tax_cfg.get("apply_on_shipping", False)), line 214
apply_on_shipping_of(tax_cfg) == tax_cfg.apply_on_shipping = "true"

\* the base of line 216
tax_base(taxable_base, shipping, apply_on_shipping) ==
  DAdd(taxable_base, IF apply_on_shipping THEN shipping ELSE Zero)

\* compute_tax, lines 206-218
compute_tax(tax_cfg, taxable_base, shipping) ==
  IF tax_falsy(tax_cfg) THEN Ok(Zero)
  ELSE IF tax_cfg.shape # "dict" THEN Raise("BadRequest")
  ELSE LET rate_percent == d(IF tax_cfg.rate_percent.k = "none" THEN Num(0, 0)
                             ELSE tax_cfg.rate_percent)
       IN  IF rate_percent.err # "ok" THEN Raise(rate_percent.err)
           ELSE IF IsNaN(rate_percent.v) THEN Raise("Exception")
           ELSE IF DLt(rate_percent.v, Zero) THEN Raise("BadRequest")
           ELSE Ok(q(DMul(tax_base(taxable_base, shipping, apply_on_shipping_of(tax_cfg)),
                          DDiv100(rate_percent.v))))

\* ----------------------------------------------------------- lambda_handler
\* build_response(400 / 500, {"error": ...}), lines 258-262
error_response(err) ==
  [statusCode |-> IF err = "BadRequest" THEN 400 ELSE 500,
   body |-> [error |-> IF err = "BadRequest" THEN "bad request"
                       ELSE "Internal server error"]]

\* str(body.get("currency", "USD")).upper(), line 233
currency_of(body) == Upper(IF body.currency = "" THEN "USD" ELSE body.currency)

\* mutant: the operands of line 239 swapped
discounted_of_swapped(subtotal, discount) == q(DSub(discount, subtotal))

\* q(subtotal - discount), line 239
discounted_of(subtotal, discount) == q(DSub(subtotal, discount))

\* mutant: line 245 without the shipping charge
total_of_no_shipping(discounted_subtotal, shipping, tax) ==
  q(DAdd(discounted_subtotal, tax))

\* q(discounted_subtotal + shipping + tax), line 245
total_of(discounted_subtotal, shipping, tax) ==
  q(DAdd(DAdd(discounted_subtotal, shipping), tax))

\* the payload of lines 247-256
ok_response(currency, subtotal, discount, shipping, tax, total, line_items) ==
  [statusCode |-> 200,
   body |-> [currency |-> currency,
             subtotal |-> Str(subtotal),
             discount |-> Str(discount),
             shipping |-> Str(shipping),
             tax |-> Str(tax),
             total |-> Str(total),
             line_items |-> line_items]]

\* lines 243-256, once the shipping charge is known
handler_from_tax(body, st, discount, discounted_subtotal, shipping, tax) ==
  IF tax.err # "ok" THEN error_response(tax.err)
  ELSE ok_response(currency_of(body), st.subtotal, discount, shipping, tax.v,
                   total_of(discounted_subtotal, shipping, tax.v), st.lines)

\* lines 240-256, once the discounted subtotal is known
handler_from_shipping(body, st, discount, discounted_subtotal, shipping) ==
  IF shipping.err # "ok" THEN error_response(shipping.err)
  ELSE handler_from_tax(body, st, discount, discounted_subtotal, shipping.v,
                        compute_tax(body.tax, discounted_subtotal, shipping.v))

\* lines 237-256, once the subtotal is known
handler_from_discounts(body, items, st, discount, discounted_subtotal) ==
  IF discount.err # "ok" THEN error_response(discount.err)
  ELSE handler_from_shipping(body, st, discount.v, discounted_subtotal,
                             compute_shipping(items, discounted_subtotal, body.shipping))

\* lines 236-256, once the items are validated
handler_from_subtotal(body, items, st, discount) ==
  handler_from_discounts(body, items, st, discount,
                         IF discount.err = "ok" THEN discounted_of(st.subtotal, discount.v)
                         ELSE Zero)

handler_from_items(body, items, st) ==
  handler_from_subtotal(body, items, st, compute_discounts(st.subtotal, body.discounts))

\* lambda_handler, lines 230-262, as one function of the request body
lambda_handler(body) ==
  LET items == validate_items(body.items)
  IN  IF items.err # "ok" THEN error_response(items.err)
      ELSE handler_from_items(body, items.v, compute_subtotal(items.v))

\* ------------------------------------------------------------ the requests
SeqsUpTo(S, n) == UNION {[1..m -> S] : m \in 0..n}

Item(sku, quantity, unit_price) ==
  [shape |-> "dict", sku |-> sku, quantity |-> quantity, unit_price |-> unit_price]

\* items the validator accepts: 0.005 and 10.00 a piece; -0.5 is an int() of 0
AcceptedItems ==
  {Item("B", Num(1, 0), Num(5, 3)),
   Item("A", Num(1, 0), Num(1000, 2)),
   Item(" A ", Num(0, 0), Num(1000, 2)),
   Item("A", Num(-5, 1), Num(1000, 2))}

\* items the validator rejects, one per check of lines 114-129
RejectedItems ==
  {[shape |-> "other", sku |-> "", quantity |-> None, unit_price |-> None],
   Item(" ", Num(1, 0), Num(1000, 2)),
   Item("A", NotANumber, Num(1000, 2)),
   Item("A", Num(-1, 0), Num(1000, 2)),
   Item("A", Num(1, 0), None),
   Item("A", Num(1, 0), Num(-1, 3))}

\* no list at all, one NaN-priced item, and every list of up to MaxItems items
ItemsInputs ==
  {[shape |-> "none", v |-> <<>>],
   [shape |-> "list", v |-> <<Item("A", Num(1, 0), JsonNaN)>>]}
    \cup {[shape |-> "list", v |-> l] : l \in SeqsUpTo(AcceptedItems \cup RejectedItems, MaxItems)}

Discount(type, value) == [shape |-> "dict", type |-> type, value |-> value]

\* 40 %, 5.00 off, and -0.004 off (which quantizes to zero)
AcceptedDiscounts ==
  {Discount("percent", Num(40, 0)),
   Discount("AMOUNT", Num(500, 2)),
   Discount("AMOUNT", Num(-4, 3))}

RejectedDiscounts ==
  {[shape |-> "other", type |-> "", value |-> None],
   Discount("bogus", Num(10, 0)),
   Discount("PERCENT", None),
   Discount("AMOUNT", NotANumber),
   Discount("PERCENT", Num(-1, 3)),
   Discount("AMOUNT", Num(-1, 2))}

DiscountsInputs ==
  {[shape |-> "none", v |-> <<>>], [shape |-> "other", v |-> <<>>]}
    \cup {[shape |-> "list", v |-> l] :
            l \in SeqsUpTo(AcceptedDiscounts \cup RejectedDiscounts, MaxDiscounts)}

Shipping(mode, rate, free_over) ==
  [shape |-> "dict", mode |-> mode, rate |-> rate, free_over |-> free_over]

ShippingInputs ==
  {[shape |-> "none", mode |-> "", rate |-> None, free_over |-> None],
   [shape |-> "other", mode |-> "", rate |-> None, free_over |-> None],
   Shipping("", None, None),
   Shipping("", Num(500, 2), None),
   Shipping("FLAT", Num(-4, 3), None),
   Shipping("FLAT", Num(-1, 2), None),
   Shipping("FLAT", NotANumber, None)}
    \cup {Shipping(m, Num(500, 2), f) :
            m \in {"flat", "PER_ITEM", "express"}, f \in {None, Num(1000, 2)}}
    \cup {Shipping("flat", Num(500, 2), Num(10004, 3))}

Tax(rate_percent, apply_on_shipping) ==
  [shape |-> "dict", rate_percent |-> rate_percent, apply_on_shipping |-> apply_on_shipping]

TaxInputs ==
  {[shape |-> "none", rate_percent |-> None, apply_on_shipping |-> "absent"],
   [shape |-> "other", rate_percent |-> None, apply_on_shipping |-> "absent"],
   Tax(None, "absent"),
   Tax(None, "true"),
   Tax(Num(8875, 3), "absent"),
   Tax(Num(8875, 3), "true"),
   Tax(Num(50, 0), "true"),
   Tax(Num(-1, 3), "false"),
   Tax(NotANumber, "false")}

Currencies == {"usd"}

\* ------------------------------------------------------- the state machine
VARIABLES
  body,                 \* the request, as far as the handler has read it
  pc,                   \* the handler's position
  items,                \* line 234
  subtotal,             \* line 236
  line_items,           \* line 236
  discount,             \* line 237
  discounted_subtotal,  \* line 239
  shipping,             \* line 240
  tax,                  \* line 243
  response              \* the value returned

vars == <<body, pc, items, subtotal, line_items, discount, discounted_subtotal,
          shipping, tax, response>>

NoResponse == [statusCode |-> 0, body |-> <<>>]

\* a request of which nothing has been read yet
Unread ==
  [currency |-> "",
   items |-> [shape |-> "none", v |-> <<>>],
   discounts |-> [shape |-> "none", v |-> <<>>],
   shipping |-> [shape |-> "none", mode |-> "", rate |-> None, free_over |-> None],
   tax |-> [shape |-> "none", rate_percent |-> None, apply_on_shipping |-> "absent"]]

Init ==
  /\ body = Unread
  /\ pc = "validate"
  /\ items = <<>>
  /\ subtotal = Zero
  /\ line_items = <<>>
  /\ discount = Zero
  /\ discounted_subtotal = Zero
  /\ shipping = Zero
  /\ tax = Zero
  /\ response = NoResponse

\* the except clauses of lines 258-262
Fail(err) ==
  /\ response' = error_response(err)
  /\ pc' = "done"

\* lines 232-234
Validate(inputs) ==
  /\ pc = "validate"
  /\ \E cur \in Currencies, its \in inputs :
       /\ body' = [body EXCEPT !.currency = cur, !.items = its]
       /\ LET r == validate_items(its)
          IN  IF r.err = "ok"
              THEN /\ items' = r.v
                   /\ pc' = "subtotal"
                   /\ UNCHANGED response
              ELSE /\ Fail(r.err)
                   /\ UNCHANGED items
  /\ UNCHANGED <<subtotal, line_items, discount, discounted_subtotal, shipping, tax>>

\* line 236
ComputeSubtotal ==
  /\ pc = "subtotal"
  /\ subtotal' = compute_subtotal(items).subtotal
  /\ line_items' = compute_subtotal(items).lines
  /\ pc' = "discounts"
  /\ UNCHANGED <<body, items, discount, discounted_subtotal, shipping, tax, response>>

\* line 237
ComputeDiscounts(inputs) ==
  /\ pc = "discounts"
  /\ \E ds \in inputs :
       /\ body' = [body EXCEPT !.discounts = ds]
       /\ LET r == compute_discounts(subtotal, ds)
          IN  IF r.err = "ok"
              THEN /\ discount' = r.v
                   /\ pc' = "shipping"
                   /\ UNCHANGED response
              ELSE /\ Fail(r.err)
                   /\ UNCHANGED discount
  /\ UNCHANGED <<items, subtotal, line_items, discounted_subtotal, shipping, tax>>

\* lines 239-240
ComputeShipping(inputs) ==
  /\ pc = "shipping"
  /\ discounted_subtotal' = discounted_of(subtotal, discount)
  /\ \E sh \in inputs :
       /\ body' = [body EXCEPT !.shipping = sh]
       /\ LET r == compute_shipping(items, discounted_of(subtotal, discount), sh)
          IN  IF r.err = "ok"
              THEN /\ shipping' = r.v
                   /\ pc' = "tax"
                   /\ UNCHANGED response
              ELSE /\ Fail(r.err)
                   /\ UNCHANGED shipping
  /\ UNCHANGED <<items, subtotal, line_items, discount, tax>>

\* line 243
ComputeTax(inputs) ==
  /\ pc = "tax"
  /\ \E tx \in inputs :
       /\ body' = [body EXCEPT !.tax = tx]
       /\ LET r == compute_tax(tx, discounted_subtotal, shipping)
          IN  IF r.err = "ok"
              THEN /\ tax' = r.v
                   /\ pc' = "respond"
                   /\ UNCHANGED response
              ELSE /\ Fail(r.err)
                   /\ UNCHANGED tax
  /\ UNCHANGED <<items, subtotal, line_items, discount, discounted_subtotal, shipping>>

\* lines 245-256
Respond ==
  /\ pc = "respond"
  /\ response' = ok_response(currency_of(body), subtotal, discount, shipping, tax,
                             total_of(discounted_subtotal, shipping, tax), line_items)
  /\ pc' = "done"
  /\ UNCHANGED <<body, items, subtotal, line_items, discount, discounted_subtotal,
                 shipping, tax>>

Next ==
  \/ Validate(ItemsInputs)
  \/ ComputeSubtotal
  \/ ComputeDiscounts(DiscountsInputs)
  \/ ComputeShipping(ShippingInputs)
  \/ ComputeTax(TaxInputs)
  \/ Respond

Spec == Init /\ [][Next]_vars

\* The handler on the requests every stage accepts, for the claims that compare
\* the answers to two requests.
AcceptedItemsInputs ==
  {[shape |-> "list", v |-> l] : l \in SeqsUpTo(AcceptedItems, MaxItems)}

AcceptedDiscountsInputs ==
  {[shape |-> "none", v |-> <<>>]}
    \cup {[shape |-> "list", v |-> l] :
            l \in SeqsUpTo({Discount("percent", Num(40, 0)), Discount("AMOUNT", Num(500, 2))},
                           MaxDiscounts)}

AcceptedShippingInputs ==
  {[shape |-> "none", mode |-> "", rate |-> None, free_over |-> None]}
    \cup {Shipping(m, Num(500, 2), f) : m \in {"flat", "PER_ITEM"}, f \in {None, Num(1000, 2)}}

AcceptedTaxInputs ==
  {[shape |-> "none", rate_percent |-> None, apply_on_shipping |-> "absent"],
   Tax(Num(8875, 3), "absent"),
   Tax(Num(50, 0), "true")}

NextAccepted ==
  \/ Validate(AcceptedItemsInputs)
  \/ ComputeSubtotal
  \/ ComputeDiscounts(AcceptedDiscountsInputs)
  \/ ComputeShipping(AcceptedShippingInputs)
  \/ ComputeTax(AcceptedTaxInputs)
  \/ Respond

SpecAccepted == Init /\ [][NextAccepted]_vars

\* the staged run returns what the handler, as one function, returns
HandlerAgrees == pc = "done" => response = lambda_handler(body)

\* ------------------------------------------------- reading emitted amounts
IsDigit(ch) == \E i \in 1..10 : DigitChars[i] = ch

DigitVal(ch) == (CHOOSE i \in 1..10 : DigitChars[i] = ch) - 1

RECURSIVE DigitsVal(_)
\* the number the digits of t spell, its sign and point skipped
DigitsVal(t) ==
  IF Len(t) = 0 THEN 0
  ELSE LET front == SubSeq(t, 1, Len(t) - 1)
           ch == t[Len(t)]
       IN  IF IsDigit(ch) THEN 10 * DigitsVal(front) + DigitVal(ch) ELSE DigitsVal(front)

\* the fractional digits of t: what follows its point
FracLen(t) ==
  IF \E i \in 1..Len(t) : t[i] = "."
  THEN Len(t) - (CHOOSE i \in 1..Len(t) : t[i] = ".")
  ELSE 0

\* the amount a JSON reader takes from the text t
Amount(t) ==
  LET neg == Len(t) > 0 /\ t[1] = "-"
  IN  DecS(IF neg THEN -DigitsVal(t) ELSE DigitsVal(t), FracLen(t), neg)

\* the amount in cents (hundredths), for an amount with at most two fractional digits
Cents(x) == x.c * Pow10(2 - x.s)

\* t is [-]digits.dd: exactly two fractional digits
TwoPlaces(t) ==
  /\ Len(t) >= 4
  /\ t[Len(t) - 2] = "."
  /\ \A i \in 1..Len(t) :
       i # Len(t) - 2 => (IsDigit(t[i]) \/ (i = 1 /\ t[i] = "-" /\ Len(t) >= 5))

DEq(a, b) == ~DLt(a, b) /\ ~DLt(b, a)

Answered200 == pc = "done" /\ response.statusCode = 200

\* the amounts of a status-200 body
SubtotalOut == Amount(response.body.subtotal)

DiscountOut == Amount(response.body.discount)

ShippingOut == Amount(response.body.shipping)

TaxOut == Amount(response.body.tax)

TotalOut == Amount(response.body.total)

\* ===================================================================== C1
\* C1: in every status-200 response the emitted discount is at least zero and at
\* most the emitted subtotal, so subtotal - discount is never negative.
C1_DiscountWithinSubtotal ==
  Answered200 =>
    /\ DGe(DiscountOut, Zero)
    /\ DGe(SubtotalOut, DiscountOut)
    /\ DGe(DSub(SubtotalOut, DiscountOut), Zero)

\* a 200 answer whose two discounts (one PERCENT, one AMOUNT) add up to more than
\* a positive subtotal and were capped to it
C1_Witness ==
  /\ Answered200
  /\ body.discounts.shape = "list"
  /\ Len(body.discounts.v) = 2
  /\ Upper(body.discounts.v[1].type) # Upper(body.discounts.v[2].type)
  /\ DLt(Zero, SubtotalOut)
  /\ DLt(SubtotalOut, Dec(500, 2))
  /\ DEq(DiscountOut, SubtotalOut)

\* ===================================================================== C2
\* C2: in every status-200 response the emitted total is exactly
\* (subtotal - discount) + shipping + tax of the emitted amounts, each of them a
\* whole number of cents.
C2_TotalIsSum ==
  Answered200 =>
    /\ \A x \in {SubtotalOut, DiscountOut, ShippingOut, TaxOut, TotalOut} : x.s <= 2
    /\ Cents(TotalOut) =
         (Cents(SubtotalOut) - Cents(DiscountOut)) + Cents(ShippingOut) + Cents(TaxOut)

\* a 200 answer with a discount, a shipping charge and a tax, all positive
C2_Witness ==
  /\ Answered200
  /\ Cents(DiscountOut) > 0
  /\ Cents(ShippingOut) > 0
  /\ Cents(TaxOut) > 0
  /\ Cents(TotalOut) > Cents(SubtotalOut)

\* ===================================================================== C3
\* C3: in every status-200 response each monetary field (subtotal, discount,
\* shipping, tax, total, every line's unit_price and line_subtotal) is text with
\* exactly two fractional digits.
C3_AllMoneyTwoPlaces ==
  Answered200 =>
    /\ \A f \in {"subtotal", "discount", "shipping", "tax", "total"} :
         TwoPlaces(response.body[f])
    /\ \A i \in 1..Len(response.body.line_items) :
         /\ TwoPlaces(response.body.line_items[i].unit_price)
         /\ TwoPlaces(response.body.line_items[i].line_subtotal)

\* ===================================================================== C4
\* the request with the quantity of item i raised by n
Bumped(b, i, n) ==
  [b EXCEPT !.items.v[i].quantity.c = @ + n * Pow10(b.items.v[i].quantity.s)]

NumPercent(discounts) ==
  Cardinality({j \in 1..Len(discounts.v) : Upper(discounts.v[j].type) = "PERCENT"})

SubtotalNotSmaller(r2) == DGe(Amount(r2.body.subtotal), SubtotalOut)

TotalNotSmaller(r2) == DGe(Amount(r2.body.total), TotalOut)

\* r2, the answer to the second request, is no error => its subtotal is not smaller
\* and, where withTotal, its total is not smaller
NotSmaller(r2, withTotal) ==
  r2.statusCode = 200 => SubtotalNotSmaller(r2) /\ (withTotal => TotalNotSmaller(r2))

\* r2's subtotal and total are both larger
BothLarger(r2) ==
  /\ r2.statusCode = 200
  /\ DLt(SubtotalOut, Amount(r2.body.subtotal))
  /\ DLt(TotalOut, Amount(r2.body.total))

\* C4 as stated: for two status-200 requests that differ only in one item's
\* quantity, larger in the second, the second's subtotal and total are not smaller.
C4_Monotone ==
  Answered200 =>
    \A i \in 1..Len(body.items.v), n \in 1..MaxBump :
      NotSmaller(lambda_handler(Bumped(body, i, n)), TRUE)

\* C4 amended: the subtotal is never smaller; the total is not smaller either when
\* the shipping policy has no free_over and at most one discount is a PERCENT.
C4_MonotoneAmended ==
  Answered200 =>
    \A i \in 1..Len(body.items.v), n \in 1..MaxBump :
      NotSmaller(lambda_handler(Bumped(body, i, n)),
                 body.shipping.free_over.k = "none" /\ NumPercent(body.discounts) <= 1)

\* a 200 answer with one PERCENT discount, PER_ITEM shipping without free_over and
\* a tax, whose total grows when an item's quantity is raised by one
C4_Witness ==
  /\ Answered200
  /\ NumPercent(body.discounts) = 1
  /\ body.shipping.shape = "dict"
  /\ Upper(body.shipping.mode) = "PER_ITEM"
  /\ body.shipping.free_over.k = "none"
  /\ Cents(TaxOut) > 0
  /\ \E i \in 1..Len(body.items.v) : BothLarger(lambda_handler(Bumped(body, i, 1)))

\* ===================================================================== C5
\* the request's shipping policy is a dict with a numeric free_over and a mode
\* that is FLAT or PER_ITEM
HasFreeOver ==
  /\ body.shipping.shape = "dict"
  /\ body.shipping.free_over.k = "num"
  /\ Upper(IF body.shipping.mode = "" THEN "FLAT" ELSE body.shipping.mode)
       \in {"FLAT", "PER_ITEM"}

FreeOverGiven == Dec(body.shipping.free_over.c, body.shipping.free_over.s)

\* subtotal - discount of the emitted amounts
DiscountedOut == DSub(SubtotalOut, DiscountOut)

RECURSIVE SumQuantity(_, _)
SumQuantity(lines, idx) ==
  IF idx > Len(lines) THEN 0 ELSE lines[idx].quantity + SumQuantity(lines, idx + 1)

\* the rate in cents, rounded half-up (an absent rate is 0)
RateCents ==
  LET c == body.shipping.rate.c
      p == Pow10(body.shipping.rate.s)
  IN  IF c >= 0 THEN (200 * c + p) \div (2 * p) ELSE -((200 * (-c) + p) \div (2 * p))

\* the charge in cents when shipping is not waived: the rate once (FLAT) or per
\* unit of quantity (PER_ITEM)
ChargeCents ==
  IF Upper(body.shipping.mode) = "PER_ITEM"
  THEN RateCents * SumQuantity(response.body.line_items, 1)
  ELSE RateCents

\* shipping is zero when the discounted subtotal reaches the threshold and the
\* mode's charge when it does not
WaivedFrom(threshold) ==
  IF DGe(DiscountedOut, threshold)
  THEN Cents(ShippingOut) = 0
  ELSE Cents(ShippingOut) = ChargeCents

\* C5 as stated: with a free_over, shipping is zero in FLAT and PER_ITEM mode when
\* subtotal - discount >= free_over (equality included), and is not waived when
\* subtotal - discount < free_over.
C5_FreeOver == (Answered200 /\ HasFreeOver) => WaivedFrom(FreeOverGiven)

\* C5 amended: the same with free_over rounded half-up to two places as the
\* threshold.
C5_FreeOverRounded == (Answered200 /\ HasFreeOver) => WaivedFrom(q(FreeOverGiven))

\* a 200 answer in PER_ITEM mode with a positive rate whose discount brings the
\* subtotal down to exactly free_over, and shipping is zero
C5_Witness ==
  /\ Answered200
  /\ HasFreeOver
  /\ Upper(body.shipping.mode) = "PER_ITEM"
  /\ ChargeCents > 0
  /\ Cents(DiscountOut) > 0
  /\ DEq(DiscountedOut, FreeOverGiven)
  /\ Cents(ShippingOut) = 0

\* ===================================================================== C6
BreakdownFields ==
  {"currency", "subtotal", "discount", "shipping", "tax", "total", "line_items"}

\* a 200 answer with the whole breakdown, or a 400/500 answer with an error only
WholeOrError ==
  \/ response.statusCode = 200 /\ DOMAIN response.body = BreakdownFields
  \/ response.statusCode \in {400, 500} /\ DOMAIN response.body = {"error"}

\* no partial results, whatever the request
ResponseIsWholeOrError == pc = "done" => WholeOrError

EmptyItems == body.items.shape = "list" /\ Len(body.items.v) = 0

NegativeNumber(val) == val.k = "num" /\ val.c < 0

NegativeQuantity ==
  \E i \in 1..Len(body.items.v) :
    body.items.v[i].shape = "dict" /\ NegativeNumber(body.items.v[i].quantity)

NegativeUnitPrice ==
  \E i \in 1..Len(body.items.v) :
    body.items.v[i].shape = "dict" /\ NegativeNumber(body.items.v[i].unit_price)

UnknownDiscountType ==
  \E j \in 1..Len(body.discounts.v) :
    /\ body.discounts.v[j].shape = "dict"
    /\ Upper(body.discounts.v[j].type) \notin {"PERCENT", "AMOUNT"}

\* C6: every response is a 200 with the whole breakdown or a 400/500 with an error
\* only; and an empty items list, a negative quantity or unit_price, or an unknown
\* discount type gives a 400 with no breakdown field.
C6_NoPartialResults ==
  pc = "done" =>
    /\ WholeOrError
    /\ (EmptyItems \/ NegativeQuantity \/ NegativeUnitPrice \/ UnknownDiscountType)
         => (response.statusCode = 400 /\ DOMAIN response.body = {"error"})

\* ===================================================================== C7
\* the items are a non-empty list of dicts, each with a sku, a whole quantity >= 0
\* and a unit_price >= 0
ItemsValid ==
  /\ body.items.shape = "list"
  /\ Len(body.items.v) > 0
  /\ \A i \in 1..Len(body.items.v) :
       /\ body.items.v[i].shape = "dict"
       /\ Strip(body.items.v[i].sku) # ""
       /\ body.items.v[i].quantity.k = "num"
       /\ body.items.v[i].quantity.s = 0
       /\ body.items.v[i].quantity.c >= 0
       /\ body.items.v[i].unit_price.k = "num"
       /\ body.items.v[i].unit_price.c >= 0

UnknownShippingMode ==
  /\ body.shipping.shape = "dict"
  /\ Upper(IF body.shipping.mode = "" THEN "FLAT" ELSE body.shipping.mode)
       \notin {"FLAT", "PER_ITEM"}

\* C7: with valid items, a shipping policy whose mode is neither FLAT nor PER_ITEM
\* gives status 400, whatever its rate and free_over.
C7_UnknownModeRejected ==
  (pc = "done" /\ ItemsValid /\ UnknownShippingMode) => response.statusCode = 400

\* ===================================================================== C8
NegativeDiscountValue ==
  \E j \in 1..Len(body.discounts.v) :
    /\ body.discounts.v[j].shape = "dict"
    /\ Upper(body.discounts.v[j].type) \in {"PERCENT", "AMOUNT"}
    /\ NegativeNumber(body.discounts.v[j].value)

NegativeShippingRate == body.shipping.shape = "dict" /\ NegativeNumber(body.shipping.rate)

NegativeTaxRate == body.tax.shape = "dict" /\ NegativeNumber(body.tax.rate_percent)

\* C8: with valid items, a strictly negative discount value, shipping rate or tax
\* rate_percent gives status 400, however small it is.
C8_NegativeRejected ==
  (pc = "done" /\ ItemsValid
     /\ (NegativeDiscountValue \/ NegativeShippingRate \/ NegativeTaxRate))
    => response.statusCode = 400

\* ===================================================================== C9
Permuted(seq, f) == [i \in 1..Len(seq) |-> seq[f[i]]]

\* C9: once compute_discounts has accepted the entries, every permutation of them
\* gives the same discount for the same subtotal.
C9_OrderIndependent ==
  (pc = "shipping" /\ body.discounts.shape = "list") =>
    \A f \in Permutations(1..Len(body.discounts.v)) :
      compute_discounts(subtotal,
                        [shape |-> "list", v |-> Permuted(body.discounts.v, f)])
        = Ok(discount)

\* a PERCENT entry before an AMOUNT entry, their sum a discount below the subtotal
C9_Witness ==
  /\ pc = "shipping"
  /\ body.discounts.shape = "list"
  /\ Len(body.discounts.v) >= 2
  /\ Upper(body.discounts.v[1].type) = "PERCENT"
  /\ Upper(body.discounts.v[2].type) = "AMOUNT"
  /\ DLt(Dec(500, 2), discount)
  /\ DLt(discount, subtotal)

\* ==================================================================== C10
\* the taxable base in cents: subtotal - discount, plus the shipping charged when
\* apply_on_shipping is true
TaxBaseCents ==
  (Cents(SubtotalOut) - Cents(DiscountOut))
    + (IF body.tax.apply_on_shipping = "true" THEN Cents(ShippingOut) ELSE 0)

\* base * rate_percent / 100 in cents, rounded half-up (an absent rate is 0)
TaxCents ==
  LET p == Pow10(body.tax.rate_percent.s + 2)
  IN  (2 * TaxBaseCents * body.tax.rate_percent.c + p) \div (2 * p)

\* C10: in a 200 answer the tax is round_half_up_2((subtotal - discount + (shipping
\* if apply_on_shipping else 0)) * rate_percent / 100), shipping being the charge
\* emitted, apply_on_shipping false when absent; no tax policy gives zero tax.
C10_TaxFormula ==
  Answered200 =>
    Cents(TaxOut) = (IF body.tax.shape = "dict" THEN TaxCents ELSE 0)

\* a 200 answer taxed at 8.875 % on a discounted subtotal plus a shipping charge
C10_Witness ==
  /\ Answered200
  /\ body.tax.shape = "dict"
  /\ body.tax.apply_on_shipping = "true"
  /\ body.tax.rate_percent = Num(8875, 3)
  /\ Cents(DiscountOut) > 0
  /\ Cents(ShippingOut) > 0
  /\ Cents(TaxOut) > 0

\* ==================================================================== C11
\* the line-item listing of a status-200 body
LinesOut == response.body.line_items

\* the unit price the request gives, in cents after half-up rounding to two places
PriceCents(v) ==
  IF v.s <= 2 THEN v.c * Pow10(2 - v.s)
  ELSE LET p == Pow10(v.s - 2) IN (2 * v.c + p) \div (2 * p)

\* the whole quantity of the request's number: its integer part
QuantityInt(v) ==
  IF v.c >= 0 THEN v.c \div Pow10(v.s) ELSE -((-v.c) \div Pow10(v.s))

RECURSIVE SumLineCents(_, _)
\* the sum in cents of the line_subtotal texts from entry idx on
SumLineCents(lines, idx) ==
  IF idx > Len(lines) THEN 0
  ELSE Cents(Amount(lines[idx].line_subtotal)) + SumLineCents(lines, idx + 1)

RECURSIVE SumRawThousandths(_, _)
\* the unrounded sum of unit_price * quantity over the request's items from idx on,
\* in thousandths (every price of the request sets has at most three places)
SumRawThousandths(its, idx) ==
  IF idx > Len(its) THEN 0
  ELSE its[idx].unit_price.c * Pow10(3 - its[idx].unit_price.s)
         * QuantityInt(its[idx].quantity)
       + SumRawThousandths(its, idx + 1)

=============================================================================
